---- MODULE Spec2Model ----
(***************************************************************************)
(* Model of the module lifecycle subsystem of the bot (ModuleManager in    *)
(* src/main.py) and of the embed pagination of the member lists            *)
(* (MemberLists.generate_list_embeds in src/staff_listen.py).              *)
(*                                                                         *)
(* A module is a Python file in the module directory.  What the manager    *)
(* reads of a file (does it exist, does it execute, has it DEPENDENCIES,   *)
(* setup, teardown, which cog class does the text show, which cog does     *)
(* setup register) is the file's record below.  The bot object the manager *)
(* wraps is modelled by what the manager's code relies on: the cog         *)
(* registry (add_cog raises "Cog named 'X' already loaded" for a taken     *)
(* name, src/main.py:284-292) and the command tree.                        *)
(***************************************************************************)
EXTENDS Integers, Sequences, FiniteSets, TLC

\* ------------------------------------------------------------------ bounds

\* Cap on len(loaded_cogs): the list can grow without limit.
MaxLoadedCogs == 3

\* Depth of nested _load_module calls at which the interpreter raises
\* RecursionError.
MaxDepth == 4

\* Largest number of entries of enabled_modules in config.json.
MaxEnabled == 2

\* A member list is a run of at most MaxRoles roles, repeated at most
\* MaxRepeat times.
MaxRoles == 2
MaxRepeat == 7

\* Largest page number asked of generate_list_embeds.
MaxPage == 1

\* Number of /streambanner sessions (views) that are open at a time.
MaxSessions == 2

\* Number of tasks that run /admin load at a time.
MaxTasks == 2

\* Largest number of entries, removed ones included, of the modules dict while
\* dispatch_event iterates over it.
MaxEntries == 4

\* Lists and roles named in the calls on list_roles, and the largest row id
\* the table gives out.
MaxLists == 1
MaxRoleIds == 2
MaxRowId == 3

\* ------------------------------------------------------- the module files

\* Python's None / the empty string: `if cog_name` is false for both.
NoCog == ""

\* src/matchday_module.py: no DEPENDENCIES, class MatchdayCog(commands.Cog),
\* setup adds MatchdayCog, no teardown.
matchday_module_file ==
    [exists |-> TRUE, exec_ok |-> TRUE, has_deps |-> FALSE, deps |-> <<>>,
     has_setup |-> TRUE, setup_raises |-> FALSE,
     cog |-> "MatchdayCog", extracted |-> "MatchdayCog", teardown |-> "none"]

\* src/streambanner_module.py: DEPENDENCIES = [], class
\* Streambanner(commands.Cog), setup adds Streambanner, no teardown.
streambanner_module_file ==
    [exists |-> TRUE, exec_ok |-> TRUE, has_deps |-> TRUE, deps |-> <<>>,
     has_setup |-> TRUE, setup_raises |-> FALSE,
     cog |-> "Streambanner", extracted |-> "Streambanner", teardown |-> "none"]

\* Further files an administrator can put into the module directory and name
\* in /admin load: one for each thing _load_module, unload_module and
\* reload_module read of a file.
\*   addon    depends on streambanner_module; its teardown removes its cog
\*   extra    depends on addon; its teardown raises
\*   anon     registers a cog that the two regular expressions of
\*            _extract_cog_name do not find; no teardown
\*   orphan   depends on streambanner_module and on a missing file
\*   nosetup  has no setup function
\*   broken   raises while it is executed
\*   faulty   its setup raises
\*   loop     names itself in DEPENDENCIES
\*   ghost    no such file
ModuleFiles ==
    [addon   |-> [exists |-> TRUE, exec_ok |-> TRUE, has_deps |-> TRUE,
                  deps |-> <<"streambanner_module">>,
                  has_setup |-> TRUE, setup_raises |-> FALSE,
                  cog |-> "Addon", extracted |-> "Addon", teardown |-> "remove_cog"],
     extra   |-> [exists |-> TRUE, exec_ok |-> TRUE, has_deps |-> TRUE,
                  deps |-> <<"addon">>,
                  has_setup |-> TRUE, setup_raises |-> FALSE,
                  cog |-> "Extra", extracted |-> "Extra", teardown |-> "raises"],
     anon    |-> [exists |-> TRUE, exec_ok |-> TRUE, has_deps |-> FALSE, deps |-> <<>>,
                  has_setup |-> TRUE, setup_raises |-> FALSE,
                  cog |-> "Anon", extracted |-> NoCog, teardown |-> "none"],
     orphan  |-> [exists |-> TRUE, exec_ok |-> TRUE, has_deps |-> TRUE,
                  deps |-> <<"streambanner_module", "ghost">>,
                  has_setup |-> TRUE, setup_raises |-> FALSE,
                  cog |-> "Orphan", extracted |-> "Orphan", teardown |-> "none"],
     nosetup |-> [exists |-> TRUE, exec_ok |-> TRUE, has_deps |-> FALSE, deps |-> <<>>,
                  has_setup |-> FALSE, setup_raises |-> FALSE,
                  cog |-> NoCog, extracted |-> NoCog, teardown |-> "none"],
     broken  |-> [exists |-> TRUE, exec_ok |-> FALSE, has_deps |-> FALSE, deps |-> <<>>,
                  has_setup |-> TRUE, setup_raises |-> FALSE,
                  cog |-> "Broken", extracted |-> "Broken", teardown |-> "none"],
     faulty  |-> [exists |-> TRUE, exec_ok |-> TRUE, has_deps |-> FALSE, deps |-> <<>>,
                  has_setup |-> TRUE, setup_raises |-> TRUE,
                  cog |-> "Faulty", extracted |-> "Faulty", teardown |-> "none"],
     loop    |-> [exists |-> TRUE, exec_ok |-> TRUE, has_deps |-> TRUE,
                  deps |-> <<"loop">>,
                  has_setup |-> TRUE, setup_raises |-> FALSE,
                  cog |-> "Loop", extracted |-> "Loop", teardown |-> "none"],
     ghost   |-> [exists |-> FALSE, exec_ok |-> FALSE, has_deps |-> FALSE, deps |-> <<>>,
                  has_setup |-> FALSE, setup_raises |-> FALSE,
                  cog |-> NoCog, extracted |-> NoCog, teardown |-> "none"]]

\* The names a caller can pass as module_name.
ModuleNames == {"matchday_module", "streambanner_module"} \cup DOMAIN ModuleFiles

\* Two files that name each other in DEPENDENCIES.
CyclicFiles ==
    [ping |-> [exists |-> TRUE, exec_ok |-> TRUE, has_deps |-> TRUE,
               deps |-> <<"pong">>,
               has_setup |-> TRUE, setup_raises |-> FALSE,
               cog |-> "Ping", extracted |-> "Ping", teardown |-> "none"],
     pong |-> [exists |-> TRUE, exec_ok |-> TRUE, has_deps |-> TRUE,
               deps |-> <<"streambanner_module", "ping">>,
               has_setup |-> TRUE, setup_raises |-> FALSE,
               cog |-> "Pong", extracted |-> "Pong", teardown |-> "none"]]

\* The module directory with the files of the cycle in it.
CyclicNames ==
    {"matchday_module", "streambanner_module", "addon", "loop"}
        \cup DOMAIN CyclicFiles

\* Two files whose setup awaits something that suspends it: slow before it
\* calls bot.add_cog, lazy after.  (The setup functions of the repository's
\* modules await bot.add_cog only.)
AwaitingFiles ==
    [slow |-> [exists |-> TRUE, exec_ok |-> TRUE, has_deps |-> FALSE, deps |-> <<>>,
               has_setup |-> TRUE, setup_raises |-> FALSE,
               cog |-> "Slow", extracted |-> "Slow", teardown |-> "none"],
     lazy |-> [exists |-> TRUE, exec_ok |-> TRUE, has_deps |-> FALSE, deps |-> <<>>,
               has_setup |-> TRUE, setup_raises |-> FALSE,
               cog |-> "Lazy", extracted |-> "Lazy", teardown |-> "none"]]

\* Where a module's setup is suspended, if anywhere.
SetupSuspends(module_name) ==
    CASE module_name = "slow" -> "before_add_cog"
      [] module_name = "lazy" -> "after_add_cog"
      [] OTHER -> "never"

\* The module directory with the two files in it.
AwaitingNames == {"streambanner_module", "nosetup"} \cup DOMAIN AwaitingFiles

\* Two files with module-level event handlers (on_message,
\* on_slash_command); their teardown removes their cog.  (No module of the
\* repository defines a handler at module level.)
HandlerFiles ==
    [greeter |-> [exists |-> TRUE, exec_ok |-> TRUE, has_deps |-> FALSE, deps |-> <<>>,
                  has_setup |-> TRUE, setup_raises |-> FALSE,
                  cog |-> "Greeter", extracted |-> "Greeter",
                  teardown |-> "remove_cog"],
     logger  |-> [exists |-> TRUE, exec_ok |-> TRUE, has_deps |-> FALSE, deps |-> <<>>,
                  has_setup |-> TRUE, setup_raises |-> FALSE,
                  cog |-> "Logger", extracted |-> "Logger",
                  teardown |-> "remove_cog"]]

\* hasattr(module, event_name)
HasHandler(module_name) == module_name \in DOMAIN HandlerFiles

\* The module directory with the two files in it.
HandlerNames == {"streambanner_module"} \cup DOMAIN HandlerFiles

File(module_name) ==
    CASE module_name = "matchday_module" -> matchday_module_file
      [] module_name = "streambanner_module" -> streambanner_module_file
      [] module_name \in DOMAIN HandlerFiles -> HandlerFiles[module_name]
      [] module_name \in DOMAIN CyclicFiles -> CyclicFiles[module_name]
      [] module_name \in DOMAIN AwaitingFiles -> AwaitingFiles[module_name]
      [] OTHER -> ModuleFiles[module_name]

\* self.required_modules
required_modules == {"matchday_module"}

\* ----------------------------------------------------- lists and dicts

InSeq(x, s) == \E i \in 1..Len(s) : s[i] = x

\* list.remove(x): removes the first occurrence.
RECURSIVE ListRemove(_, _)
ListRemove(s, x) ==
    IF s = <<>> THEN <<>>
    ELSE IF Head(s) = x THEN Tail(s)
    ELSE <<Head(s)>> \o ListRemove(Tail(s), x)

\* d[key] = value on a dict kept as the sequence of its keys, in insertion
\* order: an existing key keeps its place.
DictSet(keys, key) == IF InSeq(key, keys) THEN keys ELSE Append(keys, key)

\* del d[key]
DictDel(keys, key) == SelectSeq(keys, LAMBDA k : k # key)

Count(s, x) == Cardinality({i \in 1..Len(s) : s[i] = x})

\* d[key] = value on module_dependencies, a dict kept as a function on its keys.
\* (The order of its items is left open: see ReloadModule.)
DepsSet(d, key, value) == (key :> value) @@ d

\* All orders of a finite set of names.
RECURSIVE Orders(_)
Orders(S) ==
    IF S = {} THEN {<<>>}
    ELSE UNION {{<<x>> \o o : o \in Orders(S \ {x})} : x \in S}

\* ------------------------------------------------- MemberLists (embeds)

\* MAX_FIELDS = 25
MAX_FIELDS == 25

\* The limit of one field's value, line 333, and the length the member list is
\* split at, line 345.
FieldLimit == 1024
SplitLength == 1000

\* Member counts of the roles of a list.
MemberCounts == {0, 1, 17, 18}

\* The length of one line of a role's member list, lines 322-327: a bullet and
\* the mention, followed by " | " and the display name when the list shows
\* the user names.
LineLength(show_usernames) == IF show_usernames THEN 59 ELSE 24

\* len("\n".join(lines)) for lines given by their lengths.
RECURSIVE JoinedLength(_)
JoinedLength(lines) ==
    IF lines = <<>> THEN 0
    ELSE IF Len(lines) = 1 THEN lines[1]
    ELSE lines[1] + 1 + JoinedLength(Tail(lines))

\* Lines 236-242: a line longer than max_length is cut into chunks; the last
\* chunk becomes current_part.
RECURSIVE Chunks(_, _, _, _)
Chunks(parts, i, length, max_length) ==
    IF i + max_length >= length
    THEN [parts |-> parts, current_part |-> length - i]
    ELSE Chunks(Append(parts, max_length), i + max_length, length, max_length)

\* Lines 229-252: the loop over the lines, from the i-th on.  Strings are
\* given by their lengths; `if current_part` is current_part > 0.
RECURSIVE SplitLoop(_, _, _, _, _)
SplitLoop(lines, i, parts, current_part, max_length) ==
    IF i > Len(lines)
    THEN IF current_part > 0 THEN Append(parts, current_part) ELSE parts
    ELSE LET line == lines[i] IN
         IF line > max_length
         THEN LET flushed == IF current_part > 0 THEN Append(parts, current_part)
                             ELSE parts
                  c == Chunks(flushed, 0, line, max_length)
              IN  SplitLoop(lines, i + 1, c.parts, c.current_part, max_length)
         ELSE IF current_part + line + 1 > max_length
              THEN SplitLoop(lines, i + 1, Append(parts, current_part), line,
                             max_length)
              ELSE SplitLoop(lines, i + 1, parts,
                             IF current_part > 0 THEN current_part + 1 + line
                             ELSE line, max_length)

\* def split_long_text(self, text, max_length): the lengths of the parts.
split_long_text(lines, max_length) ==
    IF JoinedLength(lines) <= max_length THEN <<JoinedLength(lines)>>
    ELSE SplitLoop(lines, 1, <<>>, 0, max_length)

\* Lines 301-361 for one role: the fields it adds, each named by the role's
\* place in role_data and the field's number among the role's fields.
RoleFields(r, role, show_usernames) ==
    IF role.members = 0 THEN <<[role |-> r, part |-> 1]>>
    ELSE LET member_lines == [k \in 1..role.members |-> LineLength(show_usernames)] IN
         IF JoinedLength(member_lines) <= FieldLimit
         THEN <<[role |-> r, part |-> 1]>>
         ELSE LET parts == split_long_text(member_lines, SplitLength) IN
              [i \in 1..Len(parts) |-> [role |-> r, part |-> i]]

\* AddField with the test of the field count off by one: > for >=.
AddField_after_limit(e, field) ==
    IF e.current_fields > MAX_FIELDS
    THEN [e EXCEPT !.all_embeds = Append(@, e.current_embed),
                   !.current_embed = <<field>>, !.current_fields = 1]
    ELSE [e EXCEPT !.current_embed = Append(@, field),
                   !.current_fields = @ + 1]

\* Lines 308-315, 335-342 and 348-361: add one field, starting a new embed
\* when the current one is full.  An embed is the sequence of its fields.
AddField(e, field) ==
    IF e.current_fields >= MAX_FIELDS
    THEN [e EXCEPT !.all_embeds = Append(@, e.current_embed),
                   !.current_embed = <<field>>, !.current_fields = 1]
    ELSE [e EXCEPT !.current_embed = Append(@, field),
                   !.current_fields = @ + 1]

\* Lines 363-365: the last embed is added if it has fields.
LastEmbed(e) ==
    IF e.current_fields > 0 THEN Append(e.all_embeds, e.current_embed)
    ELSE e.all_embeds

Min(a, b) == IF a < b THEN a ELSE b
Max(a, b) == IF a > b THEN a ELSE b

\* Line 373: the page is brought into the range of the embeds.
ClampPage(page, all_embeds) ==
    IF all_embeds # <<>> THEN Max(0, Min(page, Len(all_embeds) - 1)) ELSE 0

\* No call of generate_list_embeds yet.
NoListing == [pc |-> "none"]

\* The Streambanner cog is not loaded, main() is not running, no load_module
\* call and no dispatch_event call is in progress.
NoBanner == [pc |-> "none"]
NoBoot == [pc |-> "none"]
NoLoads == [task \in 1..MaxTasks |-> [pc |-> "idle"]]
NoDispatch == [pc |-> "none"]

\* MemberLists.create_tables on a new database file: list_roles is empty and
\* no row id has been given out.
CreateTables ==
    [list_roles |-> <<>>, sqlite_sequence |-> 0,
     call |-> [op |-> "create_tables", list_id |-> 0, role_id |-> 0,
               custom_name |-> "None", result |-> TRUE]]

\* ------------------------------------------------------------------ state

VARIABLES
    modules,              \* ModuleManager.modules: its keys, in insertion order
    loaded_cogs,          \* ModuleManager.loaded_cogs
    module_dependencies,  \* ModuleManager.module_dependencies
    cogs,                 \* the bot's cog registry (names)
    tree,                 \* modules whose commands are in bot.tree
    pillow,               \* whether PIL can be imported
    started,              \* setup_hook has run
    last,                 \* the last call: its arguments, result and effects
    generated,            \* a call of generate_list_embeds: its position and locals
    banner,               \* the Streambanner cog's styles and the /streambanner views
    boot,                 \* main(): its position and locals
    loads,                \* the load_module calls in progress, one per task
    dispatch,             \* a dispatch_event call in progress
    conn                  \* MemberLists.conn: the list_roles table, and the last call

manager == <<modules, loaded_cogs, module_dependencies, cogs, tree, pillow, started, last>>

\* What the module manager's methods do not touch.
outside_manager == <<generated, banner, boot, loads, dispatch, conn>>

vars == <<manager, outside_manager>>

\* The manager's and the bot's state as one value, threaded through a call,
\* together with what the call did so far.
Begin ==
    [modules |-> modules, loaded_cogs |-> loaded_cogs,
     module_dependencies |-> module_dependencies, cogs |-> cogs, tree |-> tree,
     sync |-> 0, setups |-> <<>>, execs |-> <<>>, teardowns |-> <<>>,
     removed |-> {}, errors |-> 0, sync_fails |-> FALSE, sync_errors |-> 0]

\* The same while Discord answers tree.sync with an HTTP error.
BeginOffline == [Begin EXCEPT !.sync_fails = TRUE]

Ret(st, value) == [st |-> st, ret |-> value]

\* self.loading_errors.append(...)
LoadingError(st) == [st EXCEPT !.errors = @ + 1]

\* ------------------------------------------------------- ModuleManager

check_module_requirements(module_name) ==
    IF module_name = "matchday_module" THEN pillow ELSE TRUE

_extract_cog_name(module_name) ==
    IF File(module_name).exists THEN File(module_name).extracted ELSE NoCog

\* bot.add_cog(Cog(bot)) as called by a module's setup: "ok" or the
\* ClientException "already loaded".
AddCog(st, module_name) ==
    IF File(module_name).cog \in st.cogs
    THEN Ret(st, "already loaded")
    ELSE Ret([st EXCEPT !.cogs = @ \cup {File(module_name).cog},
                        !.tree = @ \cup {module_name}], "ok")

\* SetupModule without the test of lines 271-273 for a cog name that is taken.
SetupModule_unguarded(st, module_name) ==
    IF File(module_name).has_setup
    THEN LET cog_name == _extract_cog_name(module_name)
             called == [st EXCEPT !.setups = Append(@, module_name)] IN
         IF File(module_name).setup_raises
         THEN Ret(called, "raise")
         ELSE LET added == AddCog(called, module_name) IN
              IF added.ret = "ok"
              THEN Ret([added.st EXCEPT
                          !.loaded_cogs = IF cog_name # NoCog
                                          THEN Append(@, cog_name) ELSE @,
                          !.modules = DictSet(@, module_name)], "True")
              ELSE Ret([added.st EXCEPT
                          !.loaded_cogs = Append(@, File(module_name).cog)],
                       "False")
    ELSE Ret(LoadingError(st), "False")

\* Lines 267-297: the module has been executed and its dependencies are loaded.
\* ret is "True", "False" or "raise" (an exception leaves the block).
SetupModule(st, module_name) ==
    IF File(module_name).has_setup
    THEN LET cog_name == _extract_cog_name(module_name) IN
         IF cog_name # NoCog /\ InSeq(cog_name, st.loaded_cogs)
         THEN Ret(st, "False")
         ELSE LET called == [st EXCEPT !.setups = Append(@, module_name)] IN
              IF File(module_name).setup_raises
              THEN Ret(called, "raise")
              ELSE LET added == AddCog(called, module_name) IN
                   IF added.ret = "ok"
                   THEN Ret([added.st EXCEPT
                               !.loaded_cogs = IF cog_name # NoCog
                                               THEN Append(@, cog_name) ELSE @,
                               !.modules = DictSet(@, module_name)], "True")
                   ELSE Ret([added.st EXCEPT
                               !.loaded_cogs = Append(@, File(module_name).cog)],
                            "False")
    ELSE Ret(LoadingError(st), "False")

RECURSIVE _load_module(_, _, _)
RECURSIVE LoadDependencies(_, _, _, _)

\* The loop of lines 258-265 without the test of lines 261-265: a dependency
\* that could not be loaded is passed over.
LoadDependencies_unchecked(st, module_name, i, depth) ==
    LET dependencies == File(module_name).deps IN
    IF i > Len(dependencies) THEN Ret(st, "True")
    ELSE IF InSeq(dependencies[i], st.modules)
         THEN LoadDependencies(st, module_name, i + 1, depth)
         ELSE LoadDependencies(_load_module(st, dependencies[i], depth - 1).st,
                               module_name, i + 1, depth)

\* Lines 258-265: the loop over the dependencies, from the i-th on.
LoadDependencies(st, module_name, i, depth) ==
    LET dependencies == File(module_name).deps IN
    IF i > Len(dependencies) THEN Ret(st, "True")
    ELSE IF InSeq(dependencies[i], st.modules)
         THEN LoadDependencies(st, module_name, i + 1, depth)
         ELSE LET r == _load_module(st, dependencies[i], depth - 1) IN
              IF r.ret = "True"
              THEN LoadDependencies(r.st, module_name, i + 1, depth)
              ELSE Ret(LoadingError(r.st), "False")

\* Lines 241-297: the body of the try block.
LoadModuleBody(st, module_name, depth) ==
    IF ~File(module_name).exists THEN Ret(LoadingError(st), "False")
    ELSE IF depth <= 0 THEN Ret(st, "raise")
    ELSE LET executed == [st EXCEPT !.execs = Append(@, module_name)] IN
         IF ~File(module_name).exec_ok THEN Ret(executed, "raise")
         ELSE IF File(module_name).has_deps
              THEN LET recorded == [executed EXCEPT !.module_dependencies =
                                      DepsSet(@, module_name, File(module_name).deps)]
                       d == LoadDependencies(recorded, module_name, 1, depth)
                   IN  IF d.ret = "True" THEN SetupModule(d.st, module_name) ELSE d
              ELSE SetupModule(executed, module_name)

\* _load_module without the handler of lines 299-303: the exception leaves it.
ExceptException_absent(r) == r

\* Lines 299-303: except Exception.
ExceptException(r) ==
    IF r.ret = "raise" THEN Ret(LoadingError(r.st), "False") ELSE r

\* async def _load_module(self, module_name)
_load_module(st, module_name, depth) ==
    IF InSeq(module_name, st.modules) THEN Ret(st, "True")
    ELSE IF ~check_module_requirements(module_name) THEN Ret(st, "False")
    ELSE ExceptException(LoadModuleBody(st, module_name, depth))

\* A module's teardown(bot), lines 386-390 and 336-340: absent, or it removes
\* the module's cog (bot.remove_cog takes the cog's commands out of the tree),
\* or it raises, which is logged.
Teardown(st, module_name) ==
    LET kind == File(module_name).teardown IN
    IF kind = "none" THEN st
    ELSE LET called == [st EXCEPT !.teardowns = Append(@, module_name)] IN
         IF kind = "remove_cog"
         THEN [called EXCEPT !.cogs = @ \ {File(module_name).cog},
                             !.tree = @ \ {module_name},
                             !.removed = IF module_name \in called.tree
                                         THEN @ \cup {module_name} ELSE @]
         ELSE called

\* Lines 392-394 and 342-344: remove the module's commands from bot.tree.
RemoveCommands(st, module_name) ==
    IF module_name \in st.tree
    THEN [st EXCEPT !.tree = @ \ {module_name}, !.removed = @ \cup {module_name}]
    ELSE st

\* Lines 396-401 and 348-353: forget the cog name and the module.
Forget(st, module_name) ==
    LET cog_name == _extract_cog_name(module_name) IN
    [st EXCEPT !.loaded_cogs = IF cog_name # NoCog /\ InSeq(cog_name, @)
                               THEN ListRemove(@, cog_name) ELSE @,
               !.modules = DictDel(@, module_name)]

\* await self.bot.tree.sync(); an HTTPException is logged.
TreeSync(st) ==
    [st EXCEPT !.sync = @ + 1,
               !.sync_errors = IF st.sync_fails THEN @ + 1 ELSE @]

\* The list comprehension of lines 371-374 and 328-331, as the set of its
\* elements.
DependentModules(st, module_name) ==
    {mod_name \in DOMAIN st.module_dependencies :
        /\ InSeq(module_name, st.module_dependencies[mod_name])
        /\ InSeq(mod_name, st.modules)}

\* unload_module without the test of lines 382-384 for a required module.
unload_module_required_unguarded(st, module_name) ==
    IF InSeq(module_name, st.modules)
    THEN LET dependent_modules == DependentModules(st, module_name) IN
         IF dependent_modules # {} /\ module_name \notin required_modules
         THEN Ret(st, "False")
         ELSE Ret(TreeSync(Forget(RemoveCommands(Teardown(st, module_name),
                                                 module_name), module_name)), "True")
    ELSE Ret(st, "False")

\* unload_module without the test of lines 376-380 for dependent modules.
unload_module_dependents_unguarded(st, module_name) ==
    IF InSeq(module_name, st.modules)
    THEN IF module_name \in required_modules
         THEN Ret(st, "False")
         ELSE Ret(TreeSync(Forget(RemoveCommands(Teardown(st, module_name),
                                                 module_name), module_name)), "True")
    ELSE Ret(st, "False")

\* unload_module without the try of lines 387-390 around the teardown.
unload_module_teardown_uncaught(st, module_name) ==
    IF InSeq(module_name, st.modules)
    THEN LET dependent_modules == DependentModules(st, module_name) IN
         IF dependent_modules # {} /\ module_name \notin required_modules
         THEN Ret(st, "False")
         ELSE IF module_name \in required_modules
         THEN Ret(st, "False")
         ELSE IF File(module_name).teardown = "raises"
         THEN Ret(Teardown(st, module_name), "raise")
         ELSE Ret(TreeSync(Forget(RemoveCommands(Teardown(st, module_name),
                                                 module_name), module_name)), "True")
    ELSE Ret(st, "False")

\* async def unload_module(self, module_name)
unload_module(st, module_name) ==
    IF InSeq(module_name, st.modules)
    THEN LET dependent_modules == DependentModules(st, module_name) IN
         IF dependent_modules # {} /\ module_name \notin required_modules
         THEN Ret(st, "False")
         ELSE IF module_name \in required_modules
         THEN Ret(st, "False")
         ELSE Ret(TreeSync(Forget(RemoveCommands(Teardown(st, module_name),
                                                 module_name), module_name)), "True")
    ELSE Ret(st, "False")

\* Lines 333-334: for dep_module in dependent_modules: unload_module(dep_module)
RECURSIVE UnloadAll(_, _)
UnloadAll(st, names) ==
    IF names = <<>> THEN st
    ELSE UnloadAll(unload_module(st, Head(names)).st, Tail(names))

\* Lines 356-357: for dep_module in dependent_modules: _load_module(dep_module)
RECURSIVE LoadAll(_, _)
LoadAll(st, names) ==
    IF names = <<>> THEN st
    ELSE LoadAll(_load_module(st, Head(names), MaxDepth).st, Tail(names))

\* reload_module with unload_module's test for a required module put in front.
reload_module_required_guarded(st, module_name, dependent_modules) ==
    IF InSeq(module_name, st.modules)
    THEN IF module_name \in required_modules
         THEN Ret(st, "False")
         ELSE LET unloaded == UnloadAll(st, dependent_modules)
                  gone == Forget(RemoveCommands(Teardown(unloaded, module_name),
                                                module_name), module_name)
                  result == _load_module(gone, module_name, MaxDepth)
                  again == LoadAll(result.st, dependent_modules)
              IN  IF result.ret = "True" THEN Ret(TreeSync(again), "True")
                  ELSE Ret(again, result.ret)
    ELSE Ret(st, "False")

\* async def reload_module(self, module_name); dependent_modules is the list of
\* lines 328-331 in the order the dict gives it.
reload_module(st, module_name, dependent_modules) ==
    IF InSeq(module_name, st.modules)
    THEN LET unloaded == UnloadAll(st, dependent_modules)
             gone == Forget(RemoveCommands(Teardown(unloaded, module_name),
                                           module_name), module_name)
             result == _load_module(gone, module_name, MaxDepth)
             again == LoadAll(result.st, dependent_modules)
         IN  IF result.ret = "True" THEN Ret(TreeSync(again), "True")
             ELSE Ret(again, result.ret)
    ELSE Ret(st, "False")

\* load_module without the test of lines 414-416 for a loaded module.
load_module_unchecked(st, module_name) ==
    LET result == _load_module(st, module_name, MaxDepth) IN
    IF result.ret = "True" THEN Ret(TreeSync(result.st), "True") ELSE result

\* async def load_module(self, module_name)
load_module(st, module_name) ==
    IF InSeq(module_name, st.modules) THEN Ret(st, "True")
    ELSE LET result == _load_module(st, module_name, MaxDepth) IN
         IF result.ret = "True" THEN Ret(TreeSync(result.st), "True") ELSE result

\* async def load_modules(self, enabled_modules), called by setup_hook, which
\* has created the module directory.  listing is os.listdir's order.
load_modules(st, enabled_modules, listing) ==
    LET required == LoadAll(st, <<"matchday_module">>)
        wanted == SelectSeq(listing, LAMBDA n : n \in enabled_modules)
        LoadListed[i \in 0..Len(wanted)] ==
            IF i = 0 THEN required
            ELSE IF InSeq(wanted[i], LoadListed[i - 1].modules)
                 THEN LoadListed[i - 1]
                 ELSE _load_module(LoadListed[i - 1], wanted[i], MaxDepth).st
    IN  LoadListed[Len(wanted)]

\* ---------------------------------------------------------------- actions

\* What a call leaves behind: the new state and the record of the call.
Finish(op, module_name, r) ==
    /\ Len(r.st.loaded_cogs) <= MaxLoadedCogs
    /\ modules' = r.st.modules
    /\ loaded_cogs' = r.st.loaded_cogs
    /\ module_dependencies' = r.st.module_dependencies
    /\ cogs' = r.st.cogs
    /\ tree' = r.st.tree
    /\ last' = [op |-> op, module_name |-> module_name,
                result |-> (r.ret = "True"), raised |-> (r.ret = "raise"),
                sync |-> r.st.sync, setups |-> r.st.setups, execs |-> r.st.execs,
                teardowns |-> r.st.teardowns, removed |-> r.st.removed,
                errors |-> r.st.errors, sync_errors |-> r.st.sync_errors]

\* DiscordBot.setup_hook: loads the enabled modules and syncs the tree.
SetupHookOf(names) ==
    /\ ~started
    /\ \E enabled_modules \in SUBSET names :
         /\ Cardinality(enabled_modules) <= MaxEnabled
         /\ \E listing \in Orders({n \in enabled_modules : File(n).exists}) :
              Finish("load_modules", "",
                     Ret(TreeSync(load_modules(Begin, enabled_modules
                                                        \cup required_modules,
                                               listing)), "True"))
    /\ started' = TRUE
    /\ UNCHANGED <<pillow, outside_manager>>

SetupHook == SetupHookOf(ModuleNames)

\* /admin load module_name
LoadModuleOf(names) ==
    /\ started
    /\ \E module_name \in names :
         Finish("load_module", module_name, load_module(Begin, module_name))
    /\ UNCHANGED <<pillow, started, outside_manager>>

LoadModule == LoadModuleOf(ModuleNames)

\* /admin unload module_name
UnloadModuleOf(names) ==
    /\ started
    /\ \E module_name \in names :
         Finish("unload_module", module_name, unload_module(Begin, module_name))
    /\ UNCHANGED <<pillow, started, outside_manager>>

UnloadModule == UnloadModuleOf(ModuleNames)

\* /admin reload module_name.  The dependents are taken in any order, the
\* insertion order of module_dependencies among them.
ReloadModuleOf(names) ==
    /\ started
    /\ \E module_name \in names :
         \E dependent_modules \in Orders(DependentModules(Begin, module_name)) :
            Finish("reload_module", module_name,
                   reload_module(Begin, module_name, dependent_modules))
    /\ UNCHANGED <<pillow, started, outside_manager>>

ReloadModule == ReloadModuleOf(ModuleNames)

\* No call of the manager yet.
NoCall ==
    [op |-> "__init__", module_name |-> "", result |-> TRUE,
     raised |-> FALSE, sync |-> 0, setups |-> <<>>, execs |-> <<>>,
     teardowns |-> <<>>, removed |-> {}, errors |-> 0, sync_errors |-> 0]

\* ModuleManager.__init__, before setup_hook.
Init ==
    /\ modules = <<>>
    /\ loaded_cogs = <<>>
    /\ module_dependencies = <<>>
    /\ cogs = {}
    /\ tree = {}
    /\ pillow \in BOOLEAN
    /\ started = FALSE
    /\ last = NoCall
    /\ generated = NoListing
    /\ banner = NoBanner
    /\ boot = NoBoot
    /\ loads = NoLoads
    /\ dispatch = NoDispatch
    /\ conn = CreateTables

Next == SetupHook \/ LoadModule \/ UnloadModule \/ ReloadModule

Spec == Init /\ [][Next]_vars

\* The module directory with the files that can be loaded, and so unloaded.
UnloadNames ==
    {n \in ModuleNames : File(n).exists /\ File(n).exec_ok
                         /\ (File(n).has_setup => ~File(n).setup_raises)
                         /\ \A i \in 1..Len(File(n).deps) :
                               File(n).deps[i] # n /\ File(File(n).deps[i]).exists}

\* /admin unload module_name while Discord answers tree.sync with an HTTP
\* error.
UnloadModuleOffline ==
    /\ started
    /\ \E module_name \in UnloadNames :
         Finish("unload_module", module_name,
                unload_module(BeginOffline, module_name))
    /\ UNCHANGED <<pillow, started, outside_manager>>

SetupHookUnload == SetupHookOf(UnloadNames)
LoadModuleUnload == LoadModuleOf(UnloadNames)
UnloadModuleUnload == UnloadModuleOf(UnloadNames)
ReloadModuleUnload == ReloadModuleOf(UnloadNames)

NextUnload ==
    \/ SetupHookUnload \/ LoadModuleUnload \/ UnloadModuleUnload
    \/ UnloadModuleOffline \/ ReloadModuleUnload

SpecUnload == Init /\ [][NextUnload]_vars

\* The same manager over the module directory that holds the cycle.
SetupHookCyclic == SetupHookOf(CyclicNames)
LoadModuleCyclic == LoadModuleOf(CyclicNames)
UnloadModuleCyclic == UnloadModuleOf(CyclicNames)
ReloadModuleCyclic == ReloadModuleOf(CyclicNames)

NextCyclic ==
    SetupHookCyclic \/ LoadModuleCyclic \/ UnloadModuleCyclic \/ ReloadModuleCyclic

SpecCyclic == Init /\ [][NextCyclic]_vars

\* The rows a list can have: a role with its members, or a deleted role.
RoleEntries ==
    [exists : {TRUE}, members : MemberCounts] \cup [exists : {FALSE}, members : {0}]

\* All sequences over S of length at most n.
RECURSIVE SeqsUpTo(_, _)
SeqsUpTo(S, n) ==
    IF n = 0 THEN {<<>>}
    ELSE LET shorter == SeqsUpTo(S, n - 1) IN
         shorter \cup {Append(q, x) : q \in shorter, x \in S}

\* s repeated n times.
RECURSIVE Repeat(_, _)
Repeat(s, n) == IF n = 0 THEN <<>> ELSE s \o Repeat(s, n - 1)

\* The calls of generate_list_embeds: the rows of the list, in the order
\* role_data has after the optional sort, whether the list shows user names,
\* and the page asked for.
ListCalls ==
    {[pc |-> "call", role_entries |-> Repeat(run, n),
      show_usernames |-> show_usernames, page |-> page] :
        run \in SeqsUpTo(RoleEntries, MaxRoles), n \in 1..MaxRepeat,
        show_usernames \in BOOLEAN, page \in 0..MaxPage}

\* Lines 260-299 of generate_list_embeds: a row whose role the guild no longer
\* has is skipped; without rows or roles the result is one embed that carries
\* a description and no field.
GenerateListEmbeds ==
    /\ generated.pc = "call"
    /\ LET role_data == SelectSeq(generated.role_entries, LAMBDA role : role.exists) IN
       generated' =
         IF generated.role_entries = <<>> \/ role_data = <<>>
         THEN [pc |-> "done", role_data |-> role_data,
               show_usernames |-> generated.show_usernames,
               all_embeds |-> <<<<>>>>, page |-> 0]
         ELSE [pc |-> "loop", role_data |-> role_data,
               show_usernames |-> generated.show_usernames,
               page |-> generated.page, role |-> 1, part |-> 1,
               all_embeds |-> <<>>, current_embed |-> <<>>, current_fields |-> 0]
    /\ UNCHANGED <<manager, banner, boot, loads, dispatch, conn>>

\* Lines 301-361: one add_field of the loop over role_data and, within a
\* role, over the parts of its member list.
AddRoleField ==
    /\ generated.pc = "loop"
    /\ generated.role <= Len(generated.role_data)
    /\ LET fields == RoleFields(generated.role, generated.role_data[generated.role],
                                generated.show_usernames)
           added == AddField(generated, fields[generated.part])
       IN  generated' =
             IF generated.part < Len(fields)
             THEN [added EXCEPT !.part = @ + 1]
             ELSE [added EXCEPT !.role = @ + 1, !.part = 1]
    /\ UNCHANGED <<manager, banner, boot, loads, dispatch, conn>>

\* Lines 363-375: the last embed, the page, the return.
ReturnEmbeds ==
    /\ generated.pc = "loop"
    /\ generated.role > Len(generated.role_data)
    /\ LET all_embeds == LastEmbed(generated) IN
       generated' = [pc |-> "done", role_data |-> generated.role_data,
                     show_usernames |-> generated.show_usernames,
                     all_embeds |-> all_embeds,
                     page |-> ClampPage(generated.page, all_embeds)]
    /\ UNCHANGED <<manager, banner, boot, loads, dispatch, conn>>

InitEmbeds ==
    /\ modules = <<>>
    /\ loaded_cogs = <<>>
    /\ module_dependencies = <<>>
    /\ cogs = {}
    /\ tree = {}
    /\ pillow = TRUE
    /\ started = FALSE
    /\ last = NoCall
    /\ generated \in ListCalls
    /\ banner = NoBanner
    /\ boot = NoBoot
    /\ loads = NoLoads
    /\ dispatch = NoDispatch
    /\ conn = CreateTables

NextEmbeds == GenerateListEmbeds \/ AddRoleField \/ ReturnEmbeds

SpecEmbeds == InitEmbeds /\ [][NextEmbeds]_vars

\* ------------------------------------------- load_module calls as tasks

Tasks == 1..MaxTasks

\* load_module from its first line to the first point where the call is
\* suspended or returns: lines 414-418 and 233-274.  ret is "True", "False" or
\* "raise" for a call that is over, and the point of suspension otherwise.  A
\* file with DEPENDENCIES or without setup is taken to be loaded at a stretch.
BeginLoad(st, module_name) ==
    IF InSeq(module_name, st.modules) THEN Ret(st, "True")
    ELSE IF \/ SetupSuspends(module_name) = "never"
            \/ ~File(module_name).exec_ok
            \/ File(module_name).has_deps
            \/ ~File(module_name).has_setup
    THEN LET r == _load_module(st, module_name, MaxDepth) IN
         IF r.ret = "True" THEN Ret(r.st, "tree.sync") ELSE r
    ELSE IF ~check_module_requirements(module_name) THEN Ret(st, "False")
    ELSE IF ~File(module_name).exists THEN Ret(LoadingError(st), "False")
    ELSE LET executed == [st EXCEPT !.execs = Append(@, module_name)]
             cog_name == _extract_cog_name(module_name)
         IN  IF cog_name # NoCog /\ InSeq(cog_name, executed.loaded_cogs)
             THEN Ret(executed, "False")
             ELSE LET called == [executed EXCEPT !.setups = Append(@, module_name)] IN
                  IF SetupSuspends(module_name) = "before_add_cog"
                  THEN Ret(called, "before_add_cog")
                  ELSE LET added == AddCog(called, module_name) IN
                       IF added.ret = "ok" THEN Ret(added.st, "after_add_cog")
                       ELSE Ret([added.st EXCEPT !.loaded_cogs =
                                    Append(@, File(module_name).cog)], "False")

\* Lines 277-282, after setup has returned.
SetupReturned(st, module_name) ==
    LET cog_name == _extract_cog_name(module_name) IN
    Ret([st EXCEPT !.loaded_cogs = IF cog_name # NoCog
                                   THEN Append(@, cog_name) ELSE @,
                   !.modules = DictSet(@, module_name)], "tree.sync")

\* The call goes on after the suspension at_point, up to the next one or to
\* its return.
ResumeLoad(st, module_name, at_point) ==
    CASE at_point = "before_add_cog" ->
           LET added == AddCog(st, module_name) IN
           IF added.ret = "ok" THEN SetupReturned(added.st, module_name)
           ELSE Ret([added.st EXCEPT !.loaded_cogs =
                        Append(@, File(module_name).cog)], "False")
      [] at_point = "after_add_cog" -> SetupReturned(st, module_name)
      [] OTHER -> Ret(TreeSync(st), "True")

\* What a step of a task leaves behind.
TaskStep(task, module_name, concurrent, r) ==
    /\ modules' = r.st.modules
    /\ loaded_cogs' = r.st.loaded_cogs
    /\ module_dependencies' = r.st.module_dependencies
    /\ cogs' = r.st.cogs
    /\ tree' = r.st.tree
    /\ loads' = [loads EXCEPT ![task] =
                    [pc |-> IF r.ret \in {"True", "False", "raise"}
                            THEN "returned" ELSE r.ret,
                     module_name |-> module_name,
                     concurrent |-> concurrent,
                     result |-> (r.ret = "True"),
                     setups |-> Len(r.st.setups)]]
    /\ UNCHANGED <<pillow, started, last, generated, banner, boot, dispatch, conn>>

\* The other tasks whose load_module(module_name) is suspended before the
\* module is in modules.
LoadingToo(task, module_name) ==
    {other \in Tasks \ {task} :
        /\ loads[other].pc \in {"before_add_cog", "after_add_cog"}
        /\ loads[other].module_name = module_name}

\* /admin load module_name in a task of its own.
CallLoad ==
    /\ started
    /\ \E task \in Tasks, module_name \in AwaitingNames :
         /\ loads[task].pc = "idle"
         /\ TaskStep(task, module_name, LoadingToo(task, module_name) # {},
                     BeginLoad(Begin, module_name))

\* The event loop resumes a suspended call.
ContinueLoad ==
    \E task \in Tasks :
        /\ loads[task].pc \in {"before_add_cog", "after_add_cog", "tree.sync"}
        /\ TaskStep(task, loads[task].module_name, loads[task].concurrent,
                    ResumeLoad([Begin EXCEPT
                                  !.setups = [i \in 1..loads[task].setups
                                                |-> loads[task].module_name]],
                               loads[task].module_name, loads[task].pc))

SetupHookAwaiting == SetupHookOf(AwaitingNames)

NextLoads == SetupHookAwaiting \/ CallLoad \/ ContinueLoad

SpecLoads == Init /\ [][NextLoads]_vars

\* ---------------------------------------------------------- dispatch_event

\* A removed entry of the dict: deleting a key leaves its place empty, a new
\* key goes to the end.
Removed == ""

\* What a handler does when it is awaited or resumed.
HandlerOutcomes == {"returns", "raises", "suspends"}

\* Lines 431-433: the handler of the module is awaited.
Await(d, module_name) ==
    [d EXCEPT !.invoked = Append(@, [module_name |-> module_name,
                                     loaded |-> InSeq(module_name, modules),
                                     outcome |-> "suspends"])]

\* The handler's exception leaves dispatch_event.
AfterHandler_uncaught(d, outcome) ==
    [d EXCEPT !.pc = CASE outcome = "suspends" -> "suspended"
                       [] outcome = "raises" -> "raised"
                       [] OTHER -> "iterating",
              !.invoked[Len(d.invoked)].outcome = outcome]

\* Lines 434-437: an exception of the handler is logged, and the loop goes
\* on.
AfterHandler(d, outcome) ==
    [d EXCEPT !.pc = IF outcome = "suspends" THEN "suspended" ELSE "iterating",
              !.invoked[Len(d.invoked)].outcome = outcome]

\* dispatch_event is called (on_message, on_interaction): `for module_name,
\* module in self.modules.items()` makes the iterator, which keeps the size
\* of the dict, the number of items it has still to give and its place.
DispatchEvent ==
    /\ started
    /\ dispatch.pc = "none"
    /\ dispatch' = [pc |-> "iterating", keys |-> modules, entries |-> modules,
                    used |-> Len(modules), len |-> Len(modules), pos |-> 0,
                    invoked |-> <<>>, changed |-> FALSE]
    /\ UNCHANGED <<manager, generated, banner, boot, loads, conn>>

\* The places after the iterator's that hold an entry.
Ahead(d) == {i \in (d.pos + 1)..Len(d.entries) : d.entries[i] # Removed}

\* One pass of the loop of lines 429-437: the iterator's next item (a
\* RuntimeError when the dict has changed size, or holds more items than the
\* iterator has to give) and the handler of the module, if it has one.
NextHandler ==
    /\ dispatch.pc = "iterating"
    /\ IF dispatch.used # Len(modules)
       THEN dispatch' = [dispatch EXCEPT !.pc = "raised"]
       ELSE IF Ahead(dispatch) = {}
       THEN dispatch' = [dispatch EXCEPT !.pc = "returned"]
       ELSE IF dispatch.len = 0
       THEN dispatch' = [dispatch EXCEPT !.pc = "raised"]
       ELSE LET i == CHOOSE i \in Ahead(dispatch) :
                        \A j \in Ahead(dispatch) : i <= j
                d == [dispatch EXCEPT !.pos = i, !.len = @ - 1]
            IN  IF HasHandler(dispatch.entries[i])
                THEN \E outcome \in HandlerOutcomes :
                        dispatch' = AfterHandler(Await(d, dispatch.entries[i]),
                                                 outcome)
                ELSE dispatch' = d
    /\ UNCHANGED <<manager, generated, banner, boot, loads, conn>>

\* The suspended handler goes on to its end.
HandlerResumes ==
    /\ dispatch.pc = "suspended"
    /\ \E outcome \in HandlerOutcomes \ {"suspends"} :
          dispatch' = AfterHandler(dispatch, outcome)
    /\ UNCHANGED <<manager, generated, banner, boot, loads, conn>>

\* The entries of the dict after a call that made modules of before into after.
Entries(entries, before, after) ==
    LET kept == [i \in 1..Len(entries) |->
                    IF InSeq(entries[i], after) THEN entries[i] ELSE Removed]
    IN  kept \o SelectSeq(after, LAMBDA n : ~InSeq(n, before))

\* A call of the manager that runs before the dispatch or while it is
\* suspended in a handler.
Meanwhile(op, module_name, r) ==
    /\ dispatch.pc \in {"none", "suspended"}
    /\ Finish(op, module_name, r)
    /\ dispatch' = IF dispatch.pc = "none" THEN dispatch
                   ELSE [dispatch EXCEPT
                           !.entries = Entries(@, modules, r.st.modules),
                           !.changed = @ \/ r.st.modules # modules]
    /\ dispatch.pc = "suspended"
          => Len(Entries(dispatch.entries, modules, r.st.modules)) <= MaxEntries
    /\ UNCHANGED <<pillow, started, generated, banner, boot, loads, conn>>

\* /admin load
LoadMeanwhile ==
    /\ started
    /\ \E module_name \in HandlerNames :
         Meanwhile("load_module", module_name, load_module(Begin, module_name))

\* /admin unload
UnloadMeanwhile ==
    /\ started
    /\ \E module_name \in HandlerNames :
         Meanwhile("unload_module", module_name, unload_module(Begin, module_name))

SetupHookHandlers == SetupHookOf(HandlerNames)

NextDispatch ==
    \/ SetupHookHandlers \/ LoadMeanwhile \/ UnloadMeanwhile
    \/ DispatchEvent \/ NextHandler \/ HandlerResumes

SpecDispatch == Init /\ [][NextDispatch]_vars

\* ------------------------------------------------- MemberLists.list_roles

ListIds == 1..MaxLists
RoleIds == 1..MaxRoleIds

\* custom_name: None or a name.
CustomNames == {"None", "Staff"}

\* SELECT ... FROM list_roles WHERE list_id = ? AND role_id = ?
Matches(row, list_id, role_id) == row.list_id = list_id /\ row.role_id = role_id

\* INSERT INTO list_roles (list_id, role_id, custom_name) VALUES (?, ?, ?):
\* the table has no UNIQUE constraint, and the id is AUTOINCREMENT.
Insert(c, list_id, role_id, custom_name) ==
    [c EXCEPT !.list_roles = Append(@, [id |-> c.sqlite_sequence + 1,
                                        list_id |-> list_id, role_id |-> role_id,
                                        custom_name |-> custom_name]),
              !.sqlite_sequence = @ + 1]

\* UPDATE list_roles SET custom_name = ? WHERE list_id = ? AND role_id = ?
Update(c, list_id, role_id, custom_name) ==
    [c EXCEPT !.list_roles =
        [i \in 1..Len(@) |->
            IF Matches(@[i], list_id, role_id)
            THEN [@[i] EXCEPT !.custom_name = custom_name] ELSE @[i]]]

\* DELETE FROM list_roles WHERE list_id = ? AND role_id = ?
Delete(c, list_id, role_id) ==
    [c EXCEPT !.list_roles =
        SelectSeq(@, LAMBDA row : ~Matches(row, list_id, role_id))]

\* cursor.rowcount after the DELETE
Rowcount(c, list_id, role_id) ==
    Len(SelectSeq(c.list_roles, LAMBDA row : Matches(row, list_id, role_id)))

Returned(c, op, list_id, role_id, custom_name, result) ==
    [c EXCEPT !.call = [op |-> op, list_id |-> list_id, role_id |-> role_id,
                        custom_name |-> custom_name, result |-> result]]

\* add_role_to_list without the SELECT of lines 159-160.
add_role_to_list_unchecked(c, list_id, role_id, custom_name) ==
    Returned(Insert(c, list_id, role_id, custom_name),
             "add_role_to_list", list_id, role_id, custom_name, TRUE)

\* async def add_role_to_list(self, list_id, role_id, custom_name=None)
add_role_to_list(c, list_id, role_id, custom_name) ==
    IF Rowcount(c, list_id, role_id) = 0
    THEN Returned(Insert(c, list_id, role_id, custom_name),
                  "add_role_to_list", list_id, role_id, custom_name, TRUE)
    ELSE Returned(IF custom_name # "None"
                  THEN Update(c, list_id, role_id, custom_name) ELSE c,
                  "add_role_to_list", list_id, role_id, custom_name, FALSE)

\* async def remove_role_from_list(self, list_id, role_id)
remove_role_from_list(c, list_id, role_id) ==
    Returned(Delete(c, list_id, role_id),
             "remove_role_from_list", list_id, role_id, "None",
             Rowcount(c, list_id, role_id) > 0)

\* /list add_role and the like: one call of add_role_to_list.  The function
\* awaits nothing, so no other call runs in between.
AddRoleToList ==
    /\ conn.sqlite_sequence < MaxRowId
    /\ \E list_id \in ListIds, role_id \in RoleIds, custom_name \in CustomNames :
          conn' = add_role_to_list(conn, list_id, role_id, custom_name)
    /\ UNCHANGED <<manager, generated, banner, boot, loads, dispatch>>

RemoveRoleFromList ==
    /\ \E list_id \in ListIds, role_id \in RoleIds :
          conn' = remove_role_from_list(conn, list_id, role_id)
    /\ UNCHANGED <<manager, generated, banner, boot, loads, dispatch>>

NextRoles == AddRoleToList \/ RemoveRoleFromList

SpecRoles == Init /\ [][NextRoles]_vars

\* ------------------------------------------------------------------ main()

\* max_retries = 5 and the first value of retry_delay, lines 851-852.
max_retries == 5
retry_delay == 5

\* How one pass of the loop of lines 854-914 ends:
\*   no_token         the token is missing, line 867
\*   ConfigException  an exception before bot.start, lines 856-877
\*   shutdown         bot.start returned after /admin shutdown, line 883
\*   disconnected     bot.start returned without shutdown_flag, line 887
\*   LoginFailure     bot.start raised discord.LoginFailure, line 893
\*   StartException   bot.start raised another exception, line 898
Outcomes ==
    {"no_token", "ConfigException", "shutdown", "disconnected", "LoginFailure",
     "StartException"}

\* The outcomes in which bot.start was called.
Started == {"shutdown", "disconnected", "LoginFailure", "StartException"}

\* Line 910 left out: every retry waits as long as the first.
NextDelay_constant(delay) == delay

\* Line 910: retry_delay *= 2
NextDelay(delay) == delay * 2

\* def main(), lines 850-852.
MainStart ==
    /\ boot.pc = "none"
    /\ boot' = [pc |-> "loop", retry_count |-> 0, retry_delay |-> retry_delay,
                passes |-> <<>>]
    /\ UNCHANGED <<manager, generated, banner, loads, dispatch, conn>>

\* What a pass that ended with outcome does to main's locals; slept is the
\* argument of asyncio.sleep, 0 when it is not called.
Pass(b, outcome) ==
    CASE outcome \in {"no_token", "shutdown", "LoginFailure"} ->
           [b EXCEPT !.pc = "done",
                     !.passes = Append(@, [outcome |-> outcome, slept |-> 0])]
      [] outcome = "disconnected" ->
           [b EXCEPT !.retry_count = @ + 1,
                     !.passes = Append(@, [outcome |-> outcome,
                                           slept |-> b.retry_delay])]
      [] OTHER ->
           IF b.retry_count + 1 < max_retries
           THEN [b EXCEPT !.retry_count = @ + 1,
                          !.retry_delay = NextDelay(@),
                          !.passes = Append(@, [outcome |-> outcome,
                                                slept |-> b.retry_delay])]
           ELSE [b EXCEPT !.pc = "done", !.retry_count = @ + 1,
                          !.passes = Append(@, [outcome |-> outcome, slept |-> 0])]

\* One pass of `while retry_count < max_retries`, lines 854-914.
StartAttempt ==
    /\ boot.pc = "loop"
    /\ boot.retry_count < max_retries
    /\ \E outcome \in Outcomes : boot' = Pass(boot, outcome)
    /\ UNCHANGED <<manager, generated, banner, loads, dispatch, conn>>

\* The loop condition fails, lines 854 and 916-918.
MainEnd ==
    /\ boot.pc = "loop"
    /\ boot.retry_count >= max_retries
    /\ boot' = [boot EXCEPT !.pc = "done"]
    /\ UNCHANGED <<manager, generated, banner, loads, dispatch, conn>>

NextMain == MainStart \/ StartAttempt \/ MainEnd

SpecMain == Init /\ [][NextMain]_vars

\* ----------------------------------------------------------- Streambanner

\* An optional text size: None, or the sequence of the one value.
None == <<>>

\* The sizes a styles file gives text1 and text2, and the sizes a user can
\* enter in TextSizeModal.
StyleSizes == {48, 70}
TextSizes == {40, 70}

Sessions == 1..MaxSessions

\* StyleManager.get_style for a styles dict that has the element (every dict
\* _load_styles returns has text1 and text2): the element's own dict, not a
\* copy.  The result is the path to it in banner.styles.
get_style(element_id) == element_id

\* Streambanner.__init__: StyleManager(CSS_PATH) reads the styles file.
CogInit ==
    /\ banner.pc = "none"
    /\ \E size1 \in StyleSizes, size2 \in StyleSizes :
         banner' = [pc |-> "loaded",
                    css |-> [text1 |-> size1, text2 |-> size2],
                    styles |-> [text1 |-> size1, text2 |-> size2],
                    views |-> [v \in Sessions |-> [open |-> FALSE]]]
    /\ UNCHANGED <<manager, generated, boot, loads, dispatch, conn>>

\* /streambanner: StreambannerView(self), lines 160-170 and 468.
StreambannerCommand ==
    /\ banner.pc = "loaded"
    /\ \E v \in Sessions :
         banner' = [banner EXCEPT !.views[v] =
                       [open |-> TRUE, text_size |-> None, rendered |-> <<>>]]
    /\ UNCHANGED <<manager, generated, boot, loads, dispatch, conn>>

\* StreambannerView.text_size_button after the modal is submitted, line 229.
TextSizeButton ==
    /\ banner.pc = "loaded"
    /\ \E v \in Sessions, size \in TextSizes :
         /\ banner.views[v].open
         /\ banner' = [banner EXCEPT !.views[v].text_size = <<size>>]
    /\ UNCHANGED <<manager, generated, boot, loads, dispatch, conn>>

\* Streambanner.generate_streambanner_image, lines 394-402: the styles after
\* the call and the sizes the two fonts are loaded with.
generate_streambanner_image(styles, text_size) ==
    LET text1_style == get_style("text1")
        text2_style == get_style("text2")
        written == IF text_size # None
                   THEN [styles EXCEPT ![text1_style] = text_size[1],
                                       ![text2_style] = text_size[1]]
                   ELSE styles
    IN  [styles |-> written,
         font_home |-> written[text1_style], font_away |-> written[text2_style]]

\* preview_button and create_button with both names and the game mode set,
\* lines 248-255 and 297-303: the banner of the view is generated.
GenerateBanner ==
    /\ banner.pc = "loaded"
    /\ \E v \in Sessions :
         /\ banner.views[v].open
         /\ LET image == generate_streambanner_image(banner.styles,
                                                     banner.views[v].text_size)
            IN  banner' = [banner EXCEPT
                   !.styles = image.styles,
                   !.views[v].rendered =
                       <<[text_size |-> banner.views[v].text_size,
                          font_home |-> image.font_home,
                          font_away |-> image.font_away]>>]
    /\ UNCHANGED <<manager, generated, boot, loads, dispatch, conn>>

NextBanner == CogInit \/ StreambannerCommand \/ TextSizeButton \/ GenerateBanner

SpecBanner == Init /\ [][NextBanner]_vars

\* ----------------------------------------------------------------- claims

Loaded(module_name) == InSeq(module_name, modules)
LoadedAfter(module_name) == InSeq(module_name, modules')

\* The step is a call op(module_name) of the manager.
Called(op) == last'.op = op

\* The loaded modules that name module_name in their DEPENDENCIES.
LoadedDependents(module_name) ==
    {n \in ModuleNames : Loaded(n) /\ File(n).has_deps
                         /\ InSeq(module_name, File(n).deps)}

RegistryUnchanged ==
    modules' = modules /\ loaded_cogs' = loaded_cogs /\ tree' = tree

\* C1: every loaded module has all the modules of its DEPENDENCIES loaded.
C1_DependenciesLoaded ==
    \A n \in ModuleNames :
        (Loaded(n) /\ File(n).has_deps) =>
            \A i \in 1..Len(File(n).deps) : Loaded(File(n).deps[i])

\* C2: unload_module of a loaded required module returns False and changes
\* nothing: no teardown, no command removed, no sync.
C2_RequiredUnloadRefused ==
    [][(Called("unload_module") /\ last'.module_name \in required_modules
        /\ Loaded(last'.module_name))
       => (/\ ~last'.result
           /\ RegistryUnchanged
           /\ cogs' = cogs
           /\ last'.teardowns = <<>>
           /\ last'.removed = {}
           /\ last'.sync = 0)]_vars

C2_Witness ==
    /\ last.op = "unload_module"
    /\ last.module_name = "matchday_module"
    /\ Loaded("matchday_module")
    /\ ~last.result

\* C3: unload_module of a loaded module that a loaded module depends on does
\* not unload it; for a module that is not required it returns False and
\* leaves modules, loaded_cogs and the command tree as they were.
C3_DependedOnUnloadRefused ==
    [][(Called("unload_module") /\ Loaded(last'.module_name)
        /\ LoadedDependents(last'.module_name) # {})
       => (/\ LoadedAfter(last'.module_name)
           /\ last'.module_name \notin required_modules
                => (~last'.result /\ RegistryUnchanged))]_vars

C3_Witness ==
    /\ last.op = "unload_module"
    /\ last.module_name = "streambanner_module"
    /\ Loaded("streambanner_module")
    /\ Loaded("addon")
    /\ ~last.result

\* C4: loaded_cogs never holds a cog name twice.
C4_NoDuplicateCogs ==
    \A i, j \in 1..Len(loaded_cogs) : i # j => loaded_cogs[i] # loaded_cogs[j]

\* The cog name _extract_cog_name finds in the module's file is in loaded_cogs.
CogNameTaken(module_name) ==
    /\ _extract_cog_name(module_name) # NoCog
    /\ InSeq(_extract_cog_name(module_name), loaded_cogs)

\* C5, as stated: loading a module whose extracted cog name is in loaded_cogs
\* returns False, does not call its setup and does not add it to modules; nor
\* is such a module set up or added when it is loaded as a dependency.
C5_TakenCogRefused_Original ==
    [][Called("load_module") =>
       /\ CogNameTaken(last'.module_name)
            => (/\ ~last'.result
                /\ ~InSeq(last'.module_name, last'.setups)
                /\ ~LoadedAfter(last'.module_name))
       /\ \A n \in ModuleNames :
            (CogNameTaken(n) /\ InSeq(n, last'.execs))
               => (~InSeq(n, last'.setups) /\ ~LoadedAfter(n))]_vars

\* C5, amended: the same for a module that is not loaded.
C5_TakenCogRefused ==
    [][Called("load_module") =>
       /\ (~Loaded(last'.module_name) /\ CogNameTaken(last'.module_name))
            => (/\ ~last'.result
                /\ ~InSeq(last'.module_name, last'.setups)
                /\ ~LoadedAfter(last'.module_name))
       /\ \A n \in ModuleNames :
            (~Loaded(n) /\ CogNameTaken(n) /\ InSeq(n, last'.execs))
               => (~InSeq(n, last'.setups) /\ ~LoadedAfter(n))]_vars

C5_Witness ==
    /\ last.op = "load_module"
    /\ ~Loaded(last.module_name)
    /\ _extract_cog_name(last.module_name) # NoCog
    /\ InSeq(_extract_cog_name(last.module_name), loaded_cogs)
    /\ last.setups = <<>>
    /\ last.execs = <<last.module_name>>
    /\ ~last.result

\* The set of the loaded modules.
LoadedSet(keys) == {keys[i] : i \in 1..Len(keys)}

\* C6: a load, unload or reload that changes the set of loaded modules or
\* removes a command from the tree calls tree.sync.
C6_SyncAfterMutation ==
    [][((Called("load_module") \/ Called("unload_module") \/ Called("reload_module"))
        /\ (LoadedSet(modules') # LoadedSet(modules) \/ last'.removed # {}))
       => last'.sync > 0]_vars

\* C7: load_module returns False for a load that fails, whatever made it
\* fail: no exception reaches the caller, and no module's setup is tried twice.
C7_FailureReturnsFalse ==
    last.op = "load_module" =>
        /\ ~last.raised
        /\ last.result <=> Loaded(last.module_name)
        /\ \A n \in ModuleNames : Count(last.setups, n) <= 1

C7_Witness ==
    /\ last.op = "load_module"
    /\ last.module_name = "broken"
    /\ last.execs = <<"broken">>
    /\ ~last.result
    /\ ~Loaded("broken")

\* C8: a cog name is in loaded_cogs exactly when a loaded module defines it.
C8_CogsMatchModules ==
    \A n \in ModuleNames :
        File(n).cog # NoCog =>
            (InSeq(File(n).cog, loaded_cogs)
                <=> \E m \in ModuleNames : Loaded(m) /\ File(m).cog = File(n).cog)

\* The three guards the specification names, for a request on module_name:
\* the module is required, a loaded module depends on it, its cog name is taken.
NamedGuard(module_name) ==
    \/ module_name \in required_modules
    \/ LoadedDependents(module_name) # {}
    \/ CogNameTaken(module_name)
    \/ (File(module_name).cog # NoCog /\ File(module_name).cog \in cogs)

NameTaken(module_name) ==
    \/ CogNameTaken(module_name)
    \/ (File(module_name).cog # NoCog /\ File(module_name).cog \in cogs)

\* The module's file cannot be loaded, whatever the registry holds.
FileFails(module_name) ==
    \/ ~File(module_name).exists
    \/ ~check_module_requirements(module_name)
    \/ ~File(module_name).exec_ok
    \/ ~File(module_name).has_setup
    \/ File(module_name).setup_raises

\* A module of its DEPENDENCIES is not loaded when the call returns.
DependencyFailed(module_name) ==
    /\ File(module_name).has_deps
    /\ \E i \in 1..Len(File(module_name).deps) :
          ~LoadedAfter(File(module_name).deps[i])

FieldsOfRoles(role_data, show_usernames) ==
    LET upto[r \in 0..Len(role_data)] ==
            IF r = 0 THEN <<>>
            ELSE upto[r - 1] \o RoleFields(r, role_data[r], show_usernames)
    IN  upto[Len(role_data)]

\* The fields of the embeds, embed after embed.
FieldsOfEmbeds(all_embeds) ==
    LET upto[k \in 0..Len(all_embeds)] ==
            IF k = 0 THEN <<>> ELSE upto[k - 1] \o all_embeds[k]
    IN  upto[Len(all_embeds)]

\* C10: the embeds returned for a list with roles hold the generated fields in
\* their order, none dropped or duplicated; no embed holds more than 25
\* fields or none, and every embed but the last holds exactly 25.
C10_ChunksOfMaxFields ==
    (generated.pc = "done" /\ generated.role_data # <<>>) =>
        /\ FieldsOfEmbeds(generated.all_embeds)
             = FieldsOfRoles(generated.role_data, generated.show_usernames)
        /\ \A k \in 1..Len(generated.all_embeds) :
             /\ Len(generated.all_embeds[k]) >= 1
             /\ Len(generated.all_embeds[k]) <= 25
             /\ k < Len(generated.all_embeds) => Len(generated.all_embeds[k]) = 25

C10_Witness ==
    /\ generated.pc = "done"
    /\ Len(generated.all_embeds) = 2
    /\ Len(generated.all_embeds[1]) = 25
    /\ generated.all_embeds[1][25].role = generated.all_embeds[2][1].role
    /\ Len(generated.all_embeds[2]) = 3

\* C13: once matchday_module is loaded it stays loaded, whatever call follows.
C13_RequiredStaysLoaded ==
    [][Loaded("matchday_module") => LoadedAfter("matchday_module")]_vars

\* C14: a load_module that returns False leaves modules and loaded_cogs as
\* they were.
C14_FailedLoadNoEffect ==
    [][(Called("load_module") /\ ~last'.result)
       => (modules' = modules /\ loaded_cogs' = loaded_cogs)]_vars

\* C15: a reload_module that returns True leaves the set of loaded modules as
\* it was.
C15_ReloadKeepsLoadedSet ==
    [][(Called("reload_module") /\ last'.result)
       => LoadedSet(modules') = LoadedSet(modules)]_vars

\* C16: load_module of a loaded module returns True, executes no file, calls
\* no setup and no tree.sync, and leaves modules, loaded_cogs and
\* module_dependencies unchanged.
C16_LoadLoadedIdempotent ==
    [][(Called("load_module") /\ Loaded(last'.module_name))
       => (/\ last'.result
           /\ last'.execs = <<>>
           /\ last'.setups = <<>>
           /\ last'.sync = 0
           /\ modules' = modules
           /\ loaded_cogs' = loaded_cogs
           /\ module_dependencies' = module_dependencies)]_vars

C16_Witness ==
    /\ last.op = "load_module"
    /\ last.module_name = "addon"
    /\ Loaded("addon")
    /\ last.result
    /\ last.execs = <<>>
    /\ last.sync = 0

\* The modules module_name reaches through DEPENDENCIES in at most k steps.
RECURSIVE Reaches(_, _)
Reaches(module_name, k) ==
    LET direct == IF File(module_name).has_deps
                  THEN {File(module_name).deps[i] : i \in 1..Len(File(module_name).deps)}
                  ELSE {}
    IN  IF k = 0 THEN {}
        ELSE direct \cup UNION {Reaches(n, k - 1) : n \in direct}

\* The modules whose DEPENDENCIES include them, directly or transitively.
InCycle ==
    {n \in CyclicNames : n \in Reaches(n, Cardinality(CyclicNames))}

\* C17: a load of a module that depends on itself, directly or transitively,
\* ends with False and without an exception, and no module of a cycle is ever
\* loaded.
C17_CycleLoadFails ==
    /\ \A n \in InCycle : ~Loaded(n)
    /\ (last.op = "load_module" /\ last.module_name \in InCycle)
          => (~last.result /\ ~last.raised)

C17_Witness ==
    /\ last.op = "load_module"
    /\ last.module_name = "ping"
    /\ Count(last.execs, "ping") >= 2
    /\ InSeq("pong", last.execs)
    /\ ~last.result
    /\ ~Loaded("ping") /\ ~Loaded("pong")

\* The passes of main's loop so far.
Passes == IF boot.pc = "none" THEN <<>> ELSE boot.passes

\* The passes that ended with an exception other than LoginFailure.
Raised == {"ConfigException", "StartException"}

RaisedBefore(i) == Cardinality({j \in 1..(i - 1) : Passes[j].outcome \in Raised})

C11_BannerOfOwnInputs ==
    banner.pc = "loaded" =>
        \A v \in Sessions :
            (banner.views[v].open /\ banner.views[v].rendered # <<>>) =>
                LET image == banner.views[v].rendered[1] IN
                IF image.text_size = None
                THEN /\ image.font_home = banner.css.text1
                     /\ image.font_away = banner.css.text2
                ELSE /\ image.font_home = image.text_size[1]
                     /\ image.font_away = image.text_size[1]

\* The tasks whose load_module(module_name) found the module unloaded and
\* called its setup.
SetUpBy(module_name) ==
    {task \in Tasks : /\ loads[task].pc # "idle"
                      /\ loads[task].module_name = module_name
                      /\ loads[task].setups > 0}

\* C18: when load_module calls for the same unloaded module interleave, the
\* module's setup is called by one of them at most, and its cog name is in
\* loaded_cogs once at most.
C18_ConcurrentLoadOnce ==
    \A task \in Tasks :
        (loads[task].pc # "idle" /\ loads[task].concurrent) =>
            /\ Cardinality(SetUpBy(loads[task].module_name)) <= 1
            /\ Count(modules, loads[task].module_name) <= 1
            /\ Count(loaded_cogs, File(loads[task].module_name).cog) <= 1

\* The modules whose handler the dispatch has invoked, in the order of the
\* invocations.
Invoked ==
    IF dispatch.pc = "none" THEN <<>>
    ELSE [i \in 1..Len(dispatch.invoked) |-> dispatch.invoked[i].module_name]

\* C19: dispatch_event does not fail when a load or unload completes while it
\* is suspended in a handler, and it invokes the handler of no module that
\* has been unloaded by then.
C19_DispatchSurvivesChange ==
    dispatch.pc # "none" =>
        /\ dispatch.pc # "raised"
        /\ \A i \in 1..Len(dispatch.invoked) : dispatch.invoked[i].loaded

\* The modules that were loaded when the dispatch began and have stayed so.
LoadedThroughout ==
    {dispatch.keys[i] : i \in {j \in 1..Len(dispatch.keys) :
                                  dispatch.entries[j] = dispatch.keys[j]}}

\* The handlers awaited so far that have raised.
HandlersRaised ==
    {i \in 1..Len(dispatch.invoked) : dispatch.invoked[i].outcome = "raises"}

\* C20: a dispatch_event during which modules stays as it was (C19 is about
\* the other dispatches) raises nothing, whatever the handlers raise; it
\* invokes no handler twice and the handlers in the order in which their
\* modules were loaded; and when it returns it has invoked the handler of
\* every loaded module that has one.
C20_HandlersIsolated ==
    (dispatch.pc # "none" /\ ~dispatch.changed) =>
        /\ dispatch.pc # "raised"
        /\ \A n \in HandlerNames : Count(Invoked, n) <= 1
        /\ \A i, j \in 1..Len(Invoked) :
              i < j => \A a, b \in 1..Len(modules) :
                          (modules[a] = Invoked[i] /\ modules[b] = Invoked[j])
                             => a < b
        /\ \A i \in 1..Len(Invoked) : Loaded(Invoked[i]) /\ HasHandler(Invoked[i])
        /\ dispatch.pc = "returned" =>
              \A n \in HandlerNames :
                 (Loaded(n) /\ HasHandler(n)) => InSeq(n, Invoked)

\* A dispatch has returned after the first of two handlers raised and the
\* second was invoked all the same.
C20_Witness ==
    /\ dispatch.pc = "returned"
    /\ ~dispatch.changed
    /\ Len(dispatch.invoked) = 2
    /\ 1 \in HandlersRaised

\* C21: unload_module(m) of a loaded module m that is not required and has
\* no loaded dependent returns True, takes m out of modules and leaves m's
\* cog name in loaded_cogs no more, also when m's teardown raises and when
\* tree.sync fails with an HTTP error.
C21_UnloadDespiteFailures ==
    [][\A m \in ModuleNames :
          (/\ Called("unload_module")
           /\ last'.module_name = m
           /\ Loaded(m)
           /\ m \notin required_modules
           /\ LoadedDependents(m) = {})
             => /\ last'.result
                /\ ~last'.raised
                /\ ~LoadedAfter(m)
                /\ ~InSeq(File(m).cog, loaded_cogs')]_vars

\* A module whose teardown raises has been unloaded while tree.sync failed.
C21_Witness ==
    /\ last.op = "unload_module"
    /\ last.result
    /\ File(last.module_name).teardown = "raises"
    /\ InSeq(last.module_name, last.teardowns)
    /\ last.sync_errors > 0
    /\ ~Loaded(last.module_name)

\* The rows of the table, now and after the step, for a pair.
RowsOf(list_id, role_id) == Rowcount(conn, list_id, role_id)
RowsAfter(list_id, role_id) == Rowcount(conn', list_id, role_id)

\* C22: list_roles never holds two rows for a (list_id, role_id) pair;
\* add_role_to_list returns True exactly when it inserted a row, and
\* remove_role_from_list returns True exactly when the pair had a row, which
\* it no longer has.
C22_OneRowPerPair ==
    [][/\ \A list_id \in ListIds, role_id \in RoleIds :
             RowsAfter(list_id, role_id) <= 1
       /\ conn'.call.op = "add_role_to_list" =>
             /\ conn'.call.result
                   <=> Len(conn'.list_roles) = Len(conn.list_roles) + 1
             /\ conn'.call.result
                   <=> RowsOf(conn'.call.list_id, conn'.call.role_id) = 0
             /\ RowsAfter(conn'.call.list_id, conn'.call.role_id) = 1
       /\ conn'.call.op = "remove_role_from_list" =>
             /\ conn'.call.result
                   <=> RowsOf(conn'.call.list_id, conn'.call.role_id) > 0
             /\ RowsAfter(conn'.call.list_id, conn'.call.role_id) = 0]_vars

\* add_role_to_list has returned False for a pair that was added, removed and
\* added again before, and the pair holds its one row.
C22_Witness ==
    /\ conn.call.op = "add_role_to_list"
    /\ ~conn.call.result
    /\ RowsOf(conn.call.list_id, conn.call.role_id) = 1
    /\ \E i \in 1..Len(conn.list_roles) :
          /\ Matches(conn.list_roles[i], conn.call.list_id, conn.call.role_id)
          /\ conn.list_roles[i].id > 1
          /\ conn.list_roles[i].custom_name = conn.call.custom_name
    /\ Len(conn.list_roles) = 1

====
